---- MODULE Spec2Model ----
(***************************************************************************)
(* The skill-job matching pipeline of CareerAgent                          *)
(* (Agentic_AI_Integration.py) and the Flask endpoints that drive it       *)
(* (AI_Career_Agent.py).                                                   *)
(*                                                                         *)
(* Python values are modelled by type: a str on which the code performs    *)
(* character operations (lower, in, join, f-string) is [str |-> chars], a  *)
(* non-string JSON number is [int |-> n], a list is a sequence and a dict  *)
(* is a record whose DOMAIN is its key set.  Dict keys, status texts and   *)
(* report texts, which the code only copies, are plain strings.            *)
(*                                                                         *)
(* A method call is modelled by the record                                 *)
(*   [self, raised, value, trace]                                          *)
(* self  : the receiver's fields after the call,                           *)
(* raised: whether the call ended by raising,                              *)
(* value : the returned value, or the name of the exception raised,        *)
(* trace : the tools invoked during the call, in order.                    *)
(***************************************************************************)
EXTENDS Integers, Sequences, FiniteSets, TLC

VARIABLES
    file,      \* what lies at mock_db_path when the agent is constructed
    pc,        \* "start", "idle", "done" or "crashed"
    agent,     \* the CareerAgent instance's fields: [mock_jobs |-> ...]
    loaded,    \* history: mock_jobs as set by the constructor
    call       \* the invocation just completed and its outcome

vars == <<file, pc, agent, loaded, call>>

(***************************************************************************)
(* Bounds of the model.                                                    *)
(***************************************************************************)
\* longest catalog array drawn for the mock job database file
MaxJobs == 2
\* longest skills list drawn for an endpoint or run_agent invocation
MaxSkills == 2
\* longest userSkills list drawn for a direct Skill Analyzer invocation
MaxUserSkills == 7
\* longest skill_gaps list drawn for a direct Learning Recommender invocation
MaxGaps == 2

(***************************************************************************)
(* String data of the program.                                             *)
(***************************************************************************)
\* "Python"
Python ==
    [str |-> <<"P", "y", "t", "h", "o", "n">>]

\* "Data Analysis"
DataAnalysis ==
    [str |-> <<"D", "a", "t", "a", " ", "A", "n", "a", "l", "y", "s", "i",
               "s">>]

\* "SQL"
SQL ==
    [str |-> <<"S", "Q", "L">>]

\* "Machine Learning"
MachineLearning ==
    [str |-> <<"M", "a", "c", "h", "i", "n", "e", " ", "L", "e", "a", "r",
               "n", "i", "n", "g">>]

\* "AI"
AI ==
    [str |-> <<"A", "I">>]

\* "Algorithms"
Algorithms ==
    [str |-> <<"A", "l", "g", "o", "r", "i", "t", "h", "m", "s">>]

\* "Communication"
Communication ==
    [str |-> <<"C", "o", "m", "m", "u", "n", "i", "c", "a", "t", "i", "o",
               "n">>]

\* "COBOL"
COBOL ==
    [str |-> <<"C", "O", "B", "O", "L">>]

\* "Coursera: Python for Everybody"
Res_Python ==
    [str |-> <<"C", "o", "u", "r", "s", "e", "r", "a", ":", " ", "P", "y",
               "t", "h", "o", "n", " ", "f", "o", "r", " ", "E", "v", "e",
               "r", "y", "b", "o", "d", "y">>]

\* "DataCamp: Data Analyst with Python"
Res_DataAnalysis ==
    [str |-> <<"D", "a", "t", "a", "C", "a", "m", "p", ":", " ", "D", "a",
               "t", "a", " ", "A", "n", "a", "l", "y", "s", "t", " ", "w",
               "i", "t", "h", " ", "P", "y", "t", "h", "o", "n">>]

\* "Udemy: The Complete SQL Bootcamp"
Res_SQL ==
    [str |-> <<"U", "d", "e", "m", "y", ":", " ", "T", "h", "e", " ", "C",
               "o", "m", "p", "l", "e", "t", "e", " ", "S", "Q", "L", " ",
               "B", "o", "o", "t", "c", "a", "m", "p">>]

\* "Coursera: Machine Learning by Andrew Ng"
Res_MachineLearning ==
    [str |-> <<"C", "o", "u", "r", "s", "e", "r", "a", ":", " ", "M", "a",
               "c", "h", "i", "n", "e", " ", "L", "e", "a", "r", "n", "i",
               "n", "g", " ", "b", "y", " ", "A", "n", "d", "r", "e", "w",
               " ", "N", "g">>]

\* "IBM SkillsBuild: Getting Started with AI"
Res_AI ==
    [str |-> <<"I", "B", "M", " ", "S", "k", "i", "l", "l", "s", "B", "u",
               "i", "l", "d", ":", " ", "G", "e", "t", "t", "i", "n", "g",
               " ", "S", "t", "a", "r", "t", "e", "d", " ", "w", "i", "t",
               "h", " ", "A", "I">>]

\* "Online resources for "
Res_Fallback_Prefix ==
    [str |-> <<"O", "n", "l", "i", "n", "e", " ", "r", "e", "s", "o", "u",
               "r", "c", "e", "s", " ", "f", "o", "r", " ">>]

\* "Looking for a Data Scientist with strong Python, SQL, and Machine Learning skills."
Desc_DataScientist ==
    [str |-> <<"L", "o", "o", "k", "i", "n", "g", " ", "f", "o", "r", " ",
               "a", " ", "D", "a", "t", "a", " ", "S", "c", "i", "e", "n",
               "t", "i", "s", "t", " ", "w", "i", "t", "h", " ", "s", "t",
               "r", "o", "n", "g", " ", "P", "y", "t", "h", "o", "n", ",",
               " ", "S", "Q", "L", ",", " ", "a", "n", "d", " ", "M", "a",
               "c", "h", "i", "n", "e", " ", "L", "e", "a", "r", "n", "i",
               "n", "g", " ", "s", "k", "i", "l", "l", "s", ".">>]

\* "Seeking an AI Engineer with expertise in AI, Machine Learning, and algorithms."
Desc_AIEngineer ==
    [str |-> <<"S", "e", "e", "k", "i", "n", "g", " ", "a", "n", " ", "A",
               "I", " ", "E", "n", "g", "i", "n", "e", "e", "r", " ", "w",
               "i", "t", "h", " ", "e", "x", "p", "e", "r", "t", "i", "s",
               "e", " ", "i", "n", " ", "A", "I", ",", " ", "M", "a", "c",
               "h", "i", "n", "e", " ", "L", "e", "a", "r", "n", "i", "n",
               "g", ",", " ", "a", "n", "d", " ", "a", "l", "g", "o", "r",
               "i", "t", "h", "m", "s", ".">>]

\* the letters str.lower() maps, and what it maps them to
Upper ==
    <<"A", "B", "C", "D", "E", "F", "G", "H", "I", "J", "K", "L", "M",
      "N", "O", "P", "Q", "R", "S", "T", "U", "V", "W", "X", "Y", "Z">>

Lower ==
    <<"a", "b", "c", "d", "e", "f", "g", "h", "i", "j", "k", "l", "m",
      "n", "o", "p", "q", "r", "s", "t", "u", "v", "w", "x", "y", "z">>

(***************************************************************************)
(* Python built-ins used by the program.                                   *)
(***************************************************************************)
Range(s) == {s[i] : i \in 1..Len(s)}

SeqsUpTo(S, n) == UNION {[1..k -> S] : k \in 0..n}

\* isinstance(v, str)
IsStr(v) == "str" \in DOMAIN v

lower_char(c) ==
    IF \E i \in DOMAIN Upper : Upper[i] = c
    THEN Lower[CHOOSE i \in DOMAIN Upper : Upper[i] = c]
    ELSE c

\* s.lower()
lower(s) == [str |-> [i \in 1..Len(s.str) |-> lower_char(s.str[i])]]

\* a in b, for two strs: a occurs in b as a contiguous run of characters
str_in(a, b) ==
    \E i \in 0..(Len(b.str) - Len(a.str)) :
        \A k \in 1..Len(a.str) : b.str[i + k] = a.str[k]

\* f"{prefix}{s}" for two strs
str_concat(prefix, s) == [str |-> prefix.str \o s.str]

\* a call that returned v
Return(self, v, trace) ==
    [self |-> self, raised |-> FALSE, value |-> v, trace |-> trace]

\* a call that raised the exception named e
Raise(self, e, trace) ==
    [self |-> self, raised |-> TRUE, value |-> e, trace |-> trace]

(***************************************************************************)
(* CareerAgent.__init__ and _load_mock_job_db.                             *)
(***************************************************************************)
\* no agent: the name `agent` before, or without, a successful construction
Unconstructed == [constructed |-> FALSE]

\* the constructor: the fields of the new agent, or the exception that
\* open() or json.load() raises out of it
\* kind "missing": os.path.exists is false; "unreadable": the file exists
\* and open() raises; "invalid_json": json.load() raises; "array": json.load()
\* gives the list f.value
_load_mock_job_db(f) ==
    CASE f.kind = "missing"      -> Return([mock_jobs |-> <<>>], "None", <<>>)
      [] f.kind = "unreadable"   -> Raise(Unconstructed, "PermissionError", <<>>)
      [] f.kind = "invalid_json" -> Raise(Unconstructed, "JSONDecodeError", <<>>)
      [] f.kind = "array"        -> Return([mock_jobs |-> f.value], "None", <<>>)

(***************************************************************************)
(* Job Finder: CareerAgent._find_jobs_tool.                                *)
(***************************************************************************)
\* faulty variant of skill_matches: skill in job['description'], the
\* case of the letters kept
skill_matches_case_sensitive(skill, job) == str_in(skill, job.description)

\* skill.lower() in job['description'].lower()
skill_matches(skill, job) == str_in(lower(skill), lower(job.description))

\* any(skill.lower() in job['description'].lower() for skill in skills),
\* evaluated from the k-th skill on: "True", "False", or the exception raised
RECURSIVE any_skill_matches(_, _, _)
any_skill_matches(skills, job, k) ==
    IF k > Len(skills) THEN "False"
    ELSE IF ~IsStr(skills[k]) THEN "AttributeError"
    ELSE IF "description" \notin DOMAIN job THEN "KeyError"
    ELSE IF skill_matches(skills[k], job) THEN "True"
    ELSE any_skill_matches(skills, job, k + 1)

\* the for loop over self.mock_jobs, from the i-th posting on
RECURSIVE find_jobs_loop(_, _, _, _)
find_jobs_loop(self, skills, i, found_jobs) ==
    IF i > Len(self.mock_jobs)
    THEN Return(self, found_jobs, <<"_find_jobs_tool">>)
    ELSE LET job == self.mock_jobs[i]
             hit == any_skill_matches(skills, job, 1)
         IN  IF hit \notin {"True", "False"}
             THEN Raise(self, hit, <<"_find_jobs_tool">>)
             ELSE find_jobs_loop(self, skills, i + 1,
                                 IF hit = "True" THEN Append(found_jobs, job)
                                                 ELSE found_jobs)

\* faulty variant of _find_jobs_tool: the postings found are taken out of
\* self.mock_jobs
_find_jobs_tool_consuming(self, skills) ==
    LET r == find_jobs_loop(self, skills, 1, <<>>)
    IN  IF r.raised THEN r
        ELSE [r EXCEPT !.self = [mock_jobs |->
                  SelectSeq(self.mock_jobs, LAMBDA j : j \notin Range(r.value))]]

\* ', '.join(skills) in the opening print raises on a non-str item
_find_jobs_tool(self, skills) ==
    IF \E k \in 1..Len(skills) : ~IsStr(skills[k])
    THEN Raise(self, "TypeError", <<"_find_jobs_tool">>)
    ELSE find_jobs_loop(self, skills, 1, <<>>)

(***************************************************************************)
(* Skill Analyzer: CareerAgent._analyze_skills_tool.                       *)
(***************************************************************************)
required_skills ==
    <<Python, DataAnalysis, SQL, MachineLearning, AI, Algorithms>>

\* sum(1 for skill in user_skills if skill in required_skills)
match_count(user_skills) ==
    Cardinality({i \in 1..Len(user_skills) :
                    user_skills[i] \in Range(required_skills)})

\* int((match_count / len(required_skills)) * 100) if required_skills else 0.
\* The quotient is a float: when 100*n is a multiple of len = 6 the division
\* n/6 is a multiple of 1/2 and exact, otherwise the product lies 1/3 or 2/3
\* above an integer, so int() truncates to the integer quotient either way.
match_score(n) ==
    IF required_skills # <<>>
    THEN (n * 100) \div Len(required_skills)
    ELSE 0

\* faulty variant of skill_gaps, the two lists exchanged:
\* [skill for skill in user_skills if skill not in required_skills]
skill_gaps_swapped(user_skills) ==
    SelectSeq(user_skills, LAMBDA skill : skill \notin Range(required_skills))

\* [skill for skill in required_skills if skill not in user_skills]
skill_gaps(user_skills) ==
    SelectSeq(required_skills, LAMBDA skill : skill \notin Range(user_skills))

_analyze_skills_tool(self, user_skills, job_description) ==
    Return(self,
           [match_score |-> match_score(match_count(user_skills)),
            skill_gaps  |-> skill_gaps(user_skills)],
           <<"_analyze_skills_tool">>)

(***************************************************************************)
(* Learning Recommender: CareerAgent._recommend_learning_tool.             *)
(***************************************************************************)
recommendations ==
    (Python :> Res_Python) @@ (DataAnalysis :> Res_DataAnalysis) @@
    (SQL :> Res_SQL) @@ (MachineLearning :> Res_MachineLearning) @@
    (AI :> Res_AI)

\* recommendations.get(skill, f"Online resources for {skill}")
recommendation_for(skill) ==
    IF skill \in DOMAIN recommendations
    THEN recommendations[skill]
    ELSE str_concat(Res_Fallback_Prefix, skill)

\* ', '.join(skill_gaps) in the opening print raises on a non-str item
_recommend_learning_tool(self, gaps) ==
    IF \E k \in 1..Len(gaps) : ~IsStr(gaps[k])
    THEN Raise(self, "TypeError", <<"_recommend_learning_tool">>)
    ELSE Return(self,
                [k \in 1..Len(gaps) |-> recommendation_for(gaps[k])],
                <<"_recommend_learning_tool">>)

(***************************************************************************)
(* Agent Orchestrator: CareerAgent.run_agent.                              *)
(***************************************************************************)
\* faulty variant of job_match: skill_gaps and learning_plan attached
\* without the test `if analysis['skill_gaps']`
job_match_always_planned(job, analysis, learning_plan) ==
    [title |-> job.title, company |-> job.company,
     match_score |-> analysis.match_score,
     skill_gaps |-> analysis.skill_gaps, learning_plan |-> learning_plan]

\* the per-job entry of the report; skill_gaps and learning_plan are
\* attached only under `if analysis['skill_gaps']`
job_match(job, analysis, learning_plan) ==
    IF analysis.skill_gaps # <<>>
    THEN [title |-> job.title, company |-> job.company,
          match_score |-> analysis.match_score,
          skill_gaps |-> analysis.skill_gaps, learning_plan |-> learning_plan]
    ELSE [title |-> job.title, company |-> job.company,
          match_score |-> analysis.match_score]

\* the for loop over job_listings, from the i-th found job on
RECURSIVE run_agent_loop(_, _, _, _, _, _)
run_agent_loop(self, user_skills, job_listings, i, matches, trace) ==
    IF i > Len(job_listings)
    THEN Return(self, [status |-> "Success", matches |-> matches], trace)
    ELSE
      LET job == job_listings[i] IN
      IF "description" \notin DOMAIN job THEN Raise(self, "KeyError", trace)
      ELSE
        LET a == _analyze_skills_tool(self, user_skills, job.description)
            trace_a == trace \o a.trace
        IN
        IF a.raised THEN Raise(a.self, a.value, trace_a)
        ELSE IF "title" \notin DOMAIN job \/ "company" \notin DOMAIN job
        THEN Raise(a.self, "KeyError", trace_a)
        ELSE IF a.value.skill_gaps # <<>>
        THEN
          LET l == _recommend_learning_tool(a.self, a.value.skill_gaps)
              trace_l == trace_a \o l.trace
          IN
          IF l.raised THEN Raise(l.self, l.value, trace_l)
          ELSE run_agent_loop(l.self, user_skills, job_listings, i + 1,
                              Append(matches, job_match(job, a.value, l.value)),
                              trace_l)
        ELSE run_agent_loop(a.self, user_skills, job_listings, i + 1,
                            Append(matches, job_match(job, a.value, <<>>)),
                            trace_a)

run_agent(self, user_profile) ==
    LET user_skills == IF "skills" \in DOMAIN user_profile
                       THEN user_profile.skills ELSE <<>>
        f == _find_jobs_tool(self, user_skills)
    IN
    IF f.raised THEN f
    ELSE IF f.value = <<>>
    THEN Return(f.self,
                [status |-> "No jobs found.",
                 report |-> "No suitable job listings were found with your current skills."],
                f.trace)
    ELSE run_agent_loop(f.self, user_skills, f.value, 1, <<>>, f.trace)

(***************************************************************************)
(* The endpoints of AI_Career_Agent.py that reach the agent.               *)
(***************************************************************************)
\* what the except clause of find_jobs answers
error_response(r, trace) ==
    Return(r.self,
           [body |-> [status |-> "Error",
                      report |-> <<"An error occurred: ", r.value>>],
            code |-> 500],
           trace)

\* POST /api/find_jobs with the JSON body `data`
find_jobs(self, data) ==
    LET skills == IF "skills" \in DOMAIN data THEN data.skills ELSE <<>> IN
    IF skills = <<>>
    THEN Return(self,
                [body |-> [status |-> "Error",
                           report |-> "Please provide a list of skills."],
                 code |-> 400],
                <<>>)
    ELSE
      LET f == _find_jobs_tool(self, skills) IN
      IF f.raised THEN error_response(f, f.trace)
      ELSE IF f.value = <<>>
      THEN Return(f.self,
                  [body |-> [status |-> "Success", matches |-> <<>>,
                             report |-> "No suitable jobs found."],
                   code |-> 200],
                  f.trace)
      ELSE
        LET r == run_agent(f.self, [skills |-> skills]) IN
        IF r.raised THEN error_response(r, f.trace \o r.trace)
        ELSE Return(r.self, [body |-> r.value, code |-> 200],
                    f.trace \o r.trace)

\* the skills analyze_skills substitutes for the parsed resume
resume_skills == <<Python, Algorithms, Communication, DataAnalysis>>

\* POST /api/analyze_skills; `upload` is what the request carries:
\* no resume part, an empty filename, a filename allowed_file rejects,
\* or one it accepts
analyze_skills(self, upload) ==
    CASE upload = "no_resume" ->
           Return(self, [body |-> [status |-> "Error",
                                   report |-> "No resume file provided."],
                         code |-> 400], <<>>)
      [] upload = "empty_filename" ->
           Return(self, [body |-> [status |-> "Error",
                                   report |-> "No file selected."],
                         code |-> 400], <<>>)
      [] upload = "not_allowed" ->
           Return(self, [body |-> [status |-> "Error",
                                   report |-> "File type not allowed."],
                         code |-> 400], <<>>)
      [] upload = "allowed" ->
           LET r == run_agent(self, [skills |-> resume_skills,
                                     goal |-> "general career path"])
           IN  IF r.raised THEN r
               ELSE Return(r.self, [body |-> r.value, code |-> 200], r.trace)

(***************************************************************************)
(* The inputs drawn.                                                       *)
(***************************************************************************)
\* two postings of the mock database the main block writes, and two
\* entries json.load accepts although a field is missing
Job_DataScientist ==
    [title |-> "Data Scientist", company |-> "TechCorp",
     description |-> Desc_DataScientist]

Job_AIEngineer ==
    [title |-> "AI Engineer", company |-> "AI Innovators",
     description |-> Desc_AIEngineer]

Job_NoDescription == [title |-> "Web Developer", company |-> "Code Inc."]

Job_NoTitle == [company |-> "Global Solutions", description |-> Desc_DataScientist]

JobUniverse == {Job_DataScientist, Job_AIEngineer, Job_NoDescription, Job_NoTitle}

Files ==
    {[kind |-> k, value |-> <<>>] : k \in {"missing", "unreadable", "invalid_json"}}
    \cup {[kind |-> "array", value |-> v] : v \in SeqsUpTo(JobUniverse, MaxJobs)}

\* a JSON number where a skill name is expected
NotAString == [int |-> 1]

SkillUniverse == {Python, Algorithms, COBOL, NotAString}

SkillLists ==
    SeqsUpTo(SkillUniverse, MaxSkills) \cup {required_skills, resume_skills}

Profiles ==
    {[skills |-> s] : s \in SkillLists} \cup {[goal |-> "Find a job as a Data Scientist."]}

\* userSkills for the Skill Analyzer alone: long enough to repeat a skill
\* more often than the taxonomy has entries
AnalyzerSkillLists ==
    SeqsUpTo({Python, SQL, COBOL}, MaxUserSkills) \cup SkillLists

GapLists == SeqsUpTo({Python, Algorithms, COBOL, NotAString}, MaxGaps)

Uploads == {"no_resume", "empty_filename", "not_allowed", "allowed"}

(***************************************************************************)
(* The state machine: the module-level construction of the agent, then     *)
(* one invocation at a time, each running to completion.                   *)
(***************************************************************************)
NoCall == [op |-> "none"]

Completed(op, args, r) ==
    /\ pc' = "done"
    /\ agent' = r.self
    /\ call' = [op |-> op, args |-> args, raised |-> r.raised,
                value |-> r.value, trace |-> r.trace]
    /\ UNCHANGED <<file, loaded>>

Init ==
    /\ file \in Files
    /\ pc = "start"
    /\ agent = Unconstructed
    /\ loaded = <<>>
    /\ call = NoCall

\* agent = CareerAgent(granite_api_key="YOUR_GRANITE_API_KEY")
Construct ==
    /\ pc = "start"
    /\ LET r == _load_mock_job_db(file) IN
         /\ pc' = IF r.raised THEN "crashed" ELSE "idle"
         /\ agent' = r.self
         /\ loaded' = IF r.raised THEN loaded ELSE r.self.mock_jobs
         /\ call' = [op |-> "__init__", args |-> file, raised |-> r.raised,
                     value |-> r.value, trace |-> r.trace]
    /\ UNCHANGED file

RunAgent ==
    /\ pc = "idle"
    /\ \E user_profile \in Profiles :
         Completed("run_agent", user_profile, run_agent(agent, user_profile))

FindJobs ==
    /\ pc = "idle"
    /\ \E data \in Profiles :
         Completed("find_jobs", data, find_jobs(agent, data))

AnalyzeSkills ==
    /\ pc = "idle"
    /\ \E upload \in Uploads :
         Completed("analyze_skills", upload, analyze_skills(agent, upload))

FindJobsTool ==
    /\ pc = "idle"
    /\ \E skills \in SkillLists :
         Completed("_find_jobs_tool", skills, _find_jobs_tool(agent, skills))

AnalyzeSkillsTool(lists) ==
    /\ pc = "idle"
    /\ \E user_skills \in lists, job_description \in {Desc_DataScientist, Desc_AIEngineer} :
         Completed("_analyze_skills_tool", user_skills,
                   _analyze_skills_tool(agent, user_skills, job_description))

RecommendLearningTool ==
    /\ pc = "idle"
    /\ \E gaps \in GapLists :
         Completed("_recommend_learning_tool", gaps,
                   _recommend_learning_tool(agent, gaps))

\* the caller has its answer; the next invocation may begin
Respond ==
    /\ pc = "done"
    /\ pc' = "idle"
    /\ call' = NoCall
    /\ UNCHANGED <<file, agent, loaded>>

Next ==
    \/ Construct
    \/ RunAgent
    \/ FindJobs
    \/ AnalyzeSkills
    \/ FindJobsTool
    \/ AnalyzeSkillsTool(SkillLists)
    \/ RecommendLearningTool
    \/ Respond

Spec == Init /\ [][Next]_vars

\* the Skill Analyzer alone, on an agent constructed without a database file
InitAnalyze ==
    /\ file = [kind |-> "missing", value |-> <<>>]
    /\ pc = "start"
    /\ agent = Unconstructed
    /\ loaded = <<>>
    /\ call = NoCall

NextAnalyze ==
    \/ Construct
    \/ AnalyzeSkillsTool(AnalyzerSkillLists)
    \/ Respond

SpecAnalyze == InitAnalyze /\ [][NextAnalyze]_vars

(***************************************************************************)
(* Properties.                                                             *)
(***************************************************************************)
Skills(profile) == IF "skills" \in DOMAIN profile THEN profile.skills ELSE <<>>

AllStrs(s) == \A k \in 1..Len(s) : IsStr(s[k])

\* a JobPosting of the data model: title, company and description present
IsJobPosting(job) == {"title", "company", "description"} \subseteq DOMAIN job

Taxonomy == Range(required_skills)

\* the place of a taxonomy skill in the taxonomy
TaxonomyIndex(skill) == CHOOSE p \in 1..Len(required_skills) : required_skills[p] = skill

\* two characters that are equal or the two cases of one letter
SameLetter(x, y) ==
    \/ x = y
    \/ \E n \in DOMAIN Upper : {x, y} = {Upper[n], Lower[n]}

\* skill occurs in text when case is ignored
CaseInsensitiveSubstring(skill, text) ==
    \E i \in 0..(Len(text.str) - Len(skill.str)) :
        \A k \in 1..Len(skill.str) : SameLetter(skill.str[k], text.str[i + k])

\* the places of the catalog whose posting mentions some skill of S
Mentioned(S, catalog) ==
    {i \in 1..Len(catalog) :
        \E k \in 1..Len(S) : CaseInsensitiveSubstring(S[k], catalog[i].description)}

\* the n-th smallest member of a set of places
NthPlace(places, n) == CHOOSE i \in places : Cardinality({j \in places : j <= i}) = n

\* C1: the matchScore the Skill Analyzer returns is an integer in 0..100 for
\* every userSkills sequence, repeated skills included.
C1_MatchScoreInRange ==
    call.op = "_analyze_skills_tool" =>
        /\ ~call.raised
        /\ call.value.match_score \in 0..100

\* C2: the matchScore equals floor(100 * n / taxonomy size), n the number of
\* distinct taxonomy skills that are members of userSkills, each counted once.
C2_MatchScoreCountsDistinct ==
    call.op = "_analyze_skills_tool" =>
        call.value.match_score =
            (100 * Cardinality(Taxonomy \cap Range(call.args))) \div Cardinality(Taxonomy)

\* C3: skillGaps is the taxonomy with the members of userSkills removed: it
\* shares no element with userSkills, together with the taxonomy skills of
\* userSkills it makes up the taxonomy, it repeats nothing and it keeps the
\* taxonomy's order.
C3_SkillGapsPartition ==
    call.op = "_analyze_skills_tool" =>
        LET S == Range(call.args)
            gaps == call.value.skill_gaps
        IN  /\ ~call.raised
            /\ Range(gaps) \cap S = {}
            /\ Range(gaps) \cup (S \cap Taxonomy) = Taxonomy
            /\ \A i, j \in 1..Len(gaps) : gaps[i] = gaps[j] => i = j
            /\ \A i, j \in 1..Len(gaps) :
                   i < j => TaxonomyIndex(gaps[i]) < TaxonomyIndex(gaps[j])

\* an analysis of a list that repeats a taxonomy skill and leaves several gaps
C3_Witness ==
    /\ call.op = "_analyze_skills_tool"
    /\ Len(call.args) = 3
    /\ call.args[1] = Python /\ call.args[2] = Python /\ call.args[3] = SQL
    /\ call.value.skill_gaps = <<DataAnalysis, MachineLearning, AI, Algorithms>>

\* C4: over string skills S and a catalog of postings with descriptions, the
\* Job Finder returns exactly the postings whose description contains some
\* skill of S when case is ignored, in catalog order, one per catalog
\* occurrence; an empty S gives an empty result.
C4_FindIsCaseInsensitiveFilter ==
    (/\ call.op = "_find_jobs_tool"
     /\ AllStrs(call.args)
     /\ \A i \in 1..Len(loaded) : "description" \in DOMAIN loaded[i]) =>
        LET places == Mentioned(call.args, loaded) IN
        /\ ~call.raised
        /\ Len(call.value) = Cardinality(places)
        /\ \A n \in 1..Len(call.value) : call.value[n] = loaded[NthPlace(places, n)]
        /\ call.args = <<>> => call.value = <<>>

\* the skill "Algorithms" finds the posting that writes "algorithms", and
\* only that one of two
C4_Witness ==
    /\ call.op = "_find_jobs_tool"
    /\ call.args = <<COBOL, Algorithms>>
    /\ loaded = <<Job_DataScientist, Job_AIEngineer>>
    /\ call.value = <<Job_AIEngineer>>

\* C5: run_agent invoked with empty or missing skills returns a Report with
\* status Error and a message, without invoking the Job Finder.
C5_EmptySkillsIsError ==
    (call.op = "run_agent" /\ Skills(call.args) = <<>>) =>
        /\ ~call.raised
        /\ call.value.status = "Error"
        /\ "report" \in DOMAIN call.value
        /\ "_find_jobs_tool" \notin Range(call.trace)

\* C6: when skills is non-empty and the Job Finder returns no posting,
\* run_agent returns a Report with status NoJobsFound, a message and a
\* matches field that is present and empty, invoking no other tool.
C6_NoJobsFoundHasEmptyMatches ==
    (/\ call.op = "run_agent"
     /\ Skills(call.args) # <<>>
     /\ LET f == _find_jobs_tool([mock_jobs |-> loaded], Skills(call.args))
        IN  ~f.raised /\ f.value = <<>>) =>
        /\ ~call.raised
        /\ call.value.status = "No jobs found."
        /\ "report" \in DOMAIN call.value
        /\ "matches" \in DOMAIN call.value
        /\ call.value.matches = <<>>
        /\ call.trace = <<"_find_jobs_tool">>

\* C7: no invocation of run_agent, by whichever caller, ends by raising: a
\* failure while finding, analyzing or recommending comes back as a Report
\* with status Error.
C7_RunAgentNeverRaises ==
    /\ call.op = "run_agent" =>
           /\ ~call.raised
           /\ call.value.status \in {"Success", "No jobs found.", "Error"}
    /\ call.op = "analyze_skills" => ~call.raised

\* C8: a catalog source that cannot be loaded leaves the agent with an empty
\* catalog, and every later run_agent with non-empty skills ends in
\* NoJobsFound.
C8_LoadFailureLeavesEmptyCatalog ==
    (pc # "start" /\ file.kind # "array") =>
        /\ pc # "crashed"
        /\ agent.mock_jobs = <<>>
        /\ (/\ call.op = "run_agent"
            /\ Skills(call.args) # <<>>
            /\ AllStrs(Skills(call.args))) =>
               (~call.raised /\ call.value.status = "No jobs found.")

\* C9: whatever invocations have run, the catalog is the catalog as loaded at
\* construction, and what run_agent gives for a profile is what it gives
\* for that profile on the catalog as loaded.
C9_CatalogImmutableReportsRepeat ==
    pc \in {"idle", "done"} =>
        /\ agent.mock_jobs = loaded
        /\ call.op = "run_agent" =>
               LET r == run_agent([mock_jobs |-> loaded], call.args)
               IN  call.raised = r.raised /\ call.value = r.value

\* a second invocation is about to start after a run_agent that found jobs
C9_Witness ==
    /\ pc = "done"
    /\ call.op = "run_agent"
    /\ ~call.raised
    /\ call.value.status = "Success"
    /\ Len(loaded) = 2

\* the tools run_agent invokes for n found jobs whose analysis leaves, or
\* does not leave, skill gaps
RECURSIVE PerJobTrace(_, _)
PerJobTrace(n, withGaps) ==
    IF n = 0 THEN <<>>
    ELSE (IF withGaps THEN <<"_analyze_skills_tool", "_recommend_learning_tool">>
                      ELSE <<"_analyze_skills_tool">>)
         \o PerJobTrace(n - 1, withGaps)

\* C10: when the Job Finder returns a non-empty result of JobPostings,
\* run_agent returns status Success with one entry per found job in the
\* finder's order, each with the job's title, company and matchScore; the
\* entry carries skillGaps and learningPlan (one resource per gap, in order)
\* exactly when the job's skillGaps is non-empty, and the Learning
\* Recommender is invoked only then.
C10_SuccessReportPerJob ==
    LET found == _find_jobs_tool([mock_jobs |-> loaded], Skills(call.args)) IN
    (/\ call.op = "run_agent"
     /\ ~found.raised
     /\ found.value # <<>>
     /\ \A n \in 1..Len(found.value) : IsJobPosting(found.value[n])) =>
        LET gaps == skill_gaps(Skills(call.args))
            score == match_score(match_count(Skills(call.args)))
        IN
        /\ ~call.raised
        /\ DOMAIN call.value = {"status", "matches"}
        /\ call.value.status = "Success"
        /\ Len(call.value.matches) = Len(found.value)
        /\ \A n \in 1..Len(found.value) :
             LET m == call.value.matches[n] IN
             /\ m.title = found.value[n].title
             /\ m.company = found.value[n].company
             /\ m.match_score = score
             /\ gaps # <<>> =>
                  /\ DOMAIN m = {"title", "company", "match_score",
                                 "skill_gaps", "learning_plan"}
                  /\ m.skill_gaps = gaps
                  /\ Len(m.learning_plan) = Len(gaps)
                  /\ \A k \in 1..Len(gaps) :
                         m.learning_plan[k] = recommendation_for(gaps[k])
             /\ gaps = <<>> => DOMAIN m = {"title", "company", "match_score"}
        /\ call.trace = <<"_find_jobs_tool">> \o PerJobTrace(Len(found.value), gaps # <<>>)

\* skills Python and Algorithms find both postings; each entry carries the
\* four gaps and a plan of four resources in the gaps' order
C10_Witness ==
    /\ call.op = "run_agent"
    /\ ~call.raised
    /\ call.value.status = "Success"
    /\ Len(call.value.matches) = 2
    /\ call.value.matches[1].title = "Data Scientist"
    /\ call.value.matches[2].title = "AI Engineer"
    /\ "skill_gaps" \in DOMAIN call.value.matches[2]
    /\ call.value.matches[2].skill_gaps = <<DataAnalysis, SQL, MachineLearning, AI>>
    /\ call.value.matches[2].learning_plan = <<Res_DataAnalysis, Res_SQL, Res_MachineLearning, Res_AI>>

====
